---------------------------- MODULE Spec2Model ----------------------------
(***************************************************************************)
(* tiny-secp256k1: BigNum (src/src/big_num.rs), NAF recoding               *)
(* (src/src/naf.rs), affine and Jacobian points (src/src/ec_point.rs,      *)
(* src/src/ecj_point.rs), the generator table (src/src/ec_point_g.rs) and  *)
(* the facade (src/src/lib.rs).                                            *)
(*                                                                         *)
(* SCALE.  TLC's integers are 32 bits wide, so the 256-bit arithmetic is   *)
(* modelled limb for limb at a reduced width.  Every algorithm below is    *)
(* the source's algorithm, word by word; only these sizes differ:          *)
(*                                                                         *)
(*     source                         model                                *)
(*     u32 word, 2^32                 WordBits = 8, Base = 2^8             *)
(*     u64 intermediates              2*WordBits = 16 bit intermediates    *)
(*     16-bit half words (mul8x8)     4-bit half words                     *)
(*     8 words per field element      HalfWords = 3                        *)
(*     16 words of storage            NumWords = 2*HalfWords = 6           *)
(*     u8 byte, 4 per word            ByteBits = 2, still 4 per word       *)
(*     32-byte buffer                 BufLen = 4*HalfWords = 12 bytes      *)
(*     p = 2^256 - 2^32 - 0x3D1       p = 2^24 - 2^8 - 0x17 = 0xFFFEE9     *)
(*     n (order of G, n < p)          n = 0xFFE3A1 (prime, n < p)          *)
(*     y^2 = x^3 + 7                  y^2 = x^3 + 5 (prime order n)        *)
(*     G = (0x79BE66.., 0x483A..)     G = (0x79BE67, 0xF137BD)             *)
(*     66 = 1 + 257/4 table entries   NumPoints = 1 + 25/4 = 7             *)
(*                                                                         *)
(* p keeps the shape 2^(w*h) - 2^w - c, so its words are                   *)
(* [Base-c, Base-2, Base-1, ...] as in the source, and red_reduce folds    *)
(* with k = 2^w + c exactly as mul_k does.  i8 digits keep their 8 bits.   *)
(***************************************************************************)
EXTENDS Integers, Sequences, FiniteSets, TLC

\* ----------------------------------------------------------------- sizes

\* width of one word of BigNum.words (u32 in the source)
WordBits == 8
\* words of a field element or scalar (8 in the source: len == 8)
HalfWords == 3
\* the low constant of p = 2^(w*h) - 2^w - PLow (0x3d1 in the source)
PLow == 23

RECURSIVE Pow2(_)
Pow2(e) == IF e = 0 THEN 1 ELSE 2 * Pow2(e - 1)

Base == Pow2(WordBits)
WordMax == Base - 1
HalfBase == Pow2(WordBits \div 2)
NumWords == 2 * HalfWords

\* ---------------------------------------------------------------- BigNum

\* an array of n cells holds its values: f on 0..n-1 with every value
\* computed, not the rule that computes them
RECURSIVE ArrayFrom(_, _)
ArrayFrom(f, i) ==
    IF i = 0 THEN (0 :> f[0]) ELSE ArrayFrom(f, i - 1) @@ (i :> f[i])

Array(f, n) == ArrayFrom(f, n - 1)

\* struct BigNum { negative, len, words: [u32; 16] }, words little-endian
ZeroWords == Array([i \in 0..(NumWords - 1) |-> 0], NumWords)

MkBigNum(neg, len, words) == [negative |-> neg, len |-> len, words |-> words]

ZERO == MkBigNum(FALSE, 1, ZeroWords)

ONE == MkBigNum(FALSE, 1, [ZeroWords EXCEPT ![0] = 1])

\* fn strip: drop zero words from the top, never below len = 1
RECURSIVE StripLen(_, _)
StripLen(words, len) ==
    IF len > 1 /\ words[len - 1] = 0 THEN StripLen(words, len - 1) ELSE len

strip(x) == [x EXCEPT !.len = StripLen(x.words, x.len)]

\* fn norm_sign: the guard reads `self.len == 0`, and len is never 0
norm_sign(x) ==
    IF x.len = 0 /\ x.words[0] = 0 THEN [x EXCEPT !.negative = FALSE] ELSE x

\* fn words(&self) -> &self.words[..self.len]
WordsOf(x) == [i \in 0..(x.len - 1) |-> x.words[i]]

\* impl PartialEq for BigNum: sign flag and the significant words
BigNumEq(x, y) == x.negative = y.negative /\ WordsOf(x) = WordsOf(y)

\* impl PartialEq<u32> for BigNum
EqU32(x, n) == x.len = 1 /\ x.words[0] = n

\* impl Ord for BigNum: by len, then by words from the top; the sign is not
\* looked at.  -1 Less, 0 Equal, 1 Greater.
RECURSIVE CmpWords(_, _, _)
CmpWords(xw, yw, i) ==
    IF i < 0 THEN 0
    ELSE IF xw[i] # yw[i] THEN (IF xw[i] < yw[i] THEN -1 ELSE 1)
    ELSE CmpWords(xw, yw, i - 1)

cmp(x, y) ==
    IF x.len # y.len THEN (IF x.len < y.len THEN -1 ELSE 1)
    ELSE CmpWords(x.words, y.words, x.len - 1)

\* impl PartialOrd<u32> for BigNum
CmpU32(x, n) ==
    IF x.len > 1 THEN 1
    ELSE IF x.words[0] < n THEN -1 ELSE IF x.words[0] > n THEN 1 ELSE 0

\* `let v = e; ...` is written Let([v \in {e} |-> ...]): the value of a
\* function of one point, so that e is evaluated once
Let(f) == f[CHOOSE v \in DOMAIN f : TRUE]

\* ------------------------------------------------- addition, subtraction

\* add_assign, `while i < rhs.len`: returns <<words, carry>>
RECURSIVE AddLoopRhs(_, _, _, _, _)
AddLoopRhs(sw, rw, rlen, i, carry) ==
    IF i < rlen
    THEN LET word == sw[i] + rw[i] + carry
         IN  AddLoopRhs([sw EXCEPT ![i] = word % Base], rw, rlen, i + 1,
                        word \div Base)
    ELSE <<sw, carry>>

\* add_assign, `while carry != 0 && i < self.len`: returns <<words, carry>>
RECURSIVE AddLoopCarry(_, _, _, _)
AddLoopCarry(sw, slen, i, carry) ==
    IF carry # 0 /\ i < slen
    THEN LET word == sw[i] + carry
         IN  AddLoopCarry([sw EXCEPT ![i] = word % Base], slen, i + 1,
                          word \div Base)
    ELSE <<sw, carry>>

\* add_assign below the sign test: widen self with zero words, add, append
\* the last carry
AddSameSign(x, rhs) ==
    LET len0 == IF rhs.len > x.len THEN rhs.len ELSE x.len
        w0   == Array([i \in 0..(NumWords - 1) |->
                          IF i >= x.len /\ i < rhs.len THEN 0 ELSE x.words[i]],
                      NumWords)
    IN  Let([s1 \in {AddLoopRhs(w0, rhs.words, rhs.len, 0, 0)} |->
        Let([s2 \in {AddLoopCarry(s1[1], len0, rhs.len, s1[2])} |->
        IF s2[2] # 0
        THEN [x EXCEPT !.words = [s2[1] EXCEPT ![len0] = s2[2] % Base],
                       !.len = len0 + 1]
        ELSE [x EXCEPT !.words = s2[1], !.len = len0]])])

\* sub_assign, `while i < rhs.len`, i64 arithmetic: carry is 0 or -1
RECURSIVE SubLoopRhs(_, _, _, _, _)
SubLoopRhs(sw, rw, rlen, i, carry) ==
    IF i < rlen
    THEN LET word == sw[i] - rw[i] + carry
         IN  SubLoopRhs([sw EXCEPT ![i] = word % Base], rw, rlen, i + 1,
                        word \div Base)
    ELSE <<sw, carry, i>>

\* sub_assign, `while carry != 0 && i < self.len`
RECURSIVE SubLoopCarry(_, _, _, _)
SubLoopCarry(sw, slen, i, carry) ==
    IF carry # 0 /\ i < slen
    THEN LET word == sw[i] + carry
         IN  SubLoopCarry([sw EXCEPT ![i] = word % Base], slen, i + 1,
                          word \div Base)
    ELSE <<sw, carry, i>>

\* sub_assign from `let mut i = 0` on: self >= rhs in magnitude
SubWords(x, rhs) ==
    Let([s1 \in {SubLoopRhs(x.words, rhs.words, rhs.len, 0, 0)} |->
    Let([s2 \in {SubLoopCarry(s1[1], x.len, s1[3], s1[2])} |->
    norm_sign(strip([x EXCEPT !.words = s2[1],
                              !.len = IF s2[3] > x.len THEN s2[3] ELSE x.len]))])])

\* sub_assign once the signs agree: equal operands, rhs > self, and the loops
SubSameSign(x, rhs) ==
    IF BigNumEq(x, rhs)
    THEN [x EXCEPT !.len = 1, !.negative = FALSE, !.words[0] = 0]
    ELSE IF cmp(rhs, x) > 0
    THEN \* *self = *rhs; self.sub_assign(&tmp); self.negative = true
         [SubWords(rhs, x) EXCEPT !.negative = TRUE]
    ELSE SubWords(x, rhs)

\* impl AddAssign<&BigNum> for BigNum
add_assign(x, rhs) ==
    IF x.negative # rhs.negative
    THEN IF x.negative
         THEN Let([d \in {SubSameSign([x EXCEPT !.negative = FALSE], rhs)} |->
              norm_sign([d EXCEPT !.negative = ~d.negative])])
         ELSE norm_sign(SubSameSign(x, [rhs EXCEPT !.negative = FALSE]))
    ELSE AddSameSign(x, rhs)

\* impl SubAssign<&BigNum> for BigNum
sub_assign(x, rhs) ==
    IF x.negative # rhs.negative
    THEN IF x.negative
         THEN norm_sign([AddSameSign([x EXCEPT !.negative = FALSE], rhs)
                            EXCEPT !.negative = TRUE])
         ELSE norm_sign(AddSameSign(x, [rhs EXCEPT !.negative = FALSE]))
    ELSE SubSameSign(x, rhs)

\* --------------------------------------------------------- multiplication

\* mul8x8, one column k: the sums lo, mid, hi over the pairs i + j = k of the
\* half-word products (al_i*bl_j, al_i*bh_j + ah_i*bl_j, ah_i*bh_j)
RECURSIVE MulColumn(_, _, _, _, _)
MulColumn(sw, rw, k, j, acc) ==
    IF j >= HalfWords THEN acc
    ELSE LET i == k - j IN
         IF i < 0 \/ i >= HalfWords THEN MulColumn(sw, rw, k, j + 1, acc)
         ELSE LET al == sw[i] % HalfBase
                  ah == sw[i] \div HalfBase
                  bl == rw[j] % HalfBase
                  bh == rw[j] \div HalfBase
              IN  MulColumn(sw, rw, k, j + 1,
                            <<acc[1] + al * bl,
                              acc[2] + al * bh + ah * bl,
                              acc[3] + ah * bh>>)

\* mul8x8, columns k = 0 .. 14 (here 0 .. 2*HalfWords - 2): returns <<words, c>>
RECURSIVE MulColumns(_, _, _, _, _)
MulColumns(sw, rw, k, c, out) ==
    IF k > 2 * HalfWords - 2 THEN <<out, c>>
    ELSE Let([s \in {MulColumn(sw, rw, k, 0, <<0, 0, 0>>)} |->
         LET word == c + s[1] + ((s[2] % HalfBase) * HalfBase)
             c1   == s[3] + (s[2] \div HalfBase) + (word \div Base)
         IN  MulColumns(sw, rw, k + 1, c1, [out EXCEPT ![k] = word % Base])])

\* fn mul8x8: the unrolled product of two full-length operands
mul8x8(x, rhs) ==
    Let([m \in {MulColumns(x.words, rhs.words, 0, 0, x.words)} |->
         IF m[2] # 0
         THEN [x EXCEPT !.words = [m[1] EXCEPT ![2 * HalfWords - 1] = m[2] % Base],
                        !.len = 2 * HalfWords]
         ELSE [x EXCEPT !.words = m[1], !.len = 2 * HalfWords - 1]])

\* mul_assign, general path, `for j in j_low..j_high`: returns <<rword, ncarry>>
RECURSIVE MulInner(_, _, _, _, _, _, _)
MulInner(sw, rw, k, j, jhigh, rword, ncarry) ==
    IF j >= jhigh THEN <<rword, ncarry>>
    ELSE LET r == sw[k - j] * rw[j] + rword
         IN  MulInner(sw, rw, k, j + 1, jhigh, r % Base, ncarry + (r \div Base))

\* mul_assign, general path, `for k in 1..res.len`: returns <<words, carry>>
RECURSIVE MulOuter(_, _, _, _, _, _)
MulOuter(x, rhs, reslen, k, carry, out) ==
    IF k >= reslen THEN <<out, carry>>
    ELSE LET jlow  == IF k > x.len THEN k - x.len + 1 ELSE 0
             jhigh == IF rhs.len > k THEN k + 1 ELSE rhs.len
         IN  Let([s \in {MulInner(x.words, rhs.words, k, jlow, jhigh,
                           carry % Base, carry \div Base)} |->
             MulOuter(x, rhs, reslen, k + 1, s[2], [out EXCEPT ![k] = s[1]])])

\* mul_assign, general path (schoolbook)
MulSchoolbook(x, rhs) ==
    LET reslen == x.len + rhs.len - 1
        c0     == x.words[0] * rhs.words[0]
    IN  Let([m \in {MulOuter(x, rhs, reslen, 1, c0 \div Base,
                      [ZeroWords EXCEPT ![0] = c0 % Base])} |->
        IF m[2] # 0
        THEN strip(MkBigNum(FALSE, reslen + 1,
                            [m[1] EXCEPT ![reslen] = m[2] % Base]))
        ELSE strip(MkBigNum(FALSE, reslen, m[1]))])

\* impl MulAssign<u32> for BigNum: *self *= rhs
RECURSIVE MulU32Loop(_, _, _, _, _)
MulU32Loop(sw, slen, n, i, carry) ==
    IF i >= slen THEN <<sw, carry>>
    ELSE LET tmp == sw[i] * n
             c1  == carry + (tmp % Base)
         IN  MulU32Loop([sw EXCEPT ![i] = c1 % Base], slen, n, i + 1,
                        (c1 \div Base) + (tmp \div Base))

mul_assign_u32(x, n) ==
    Let([m \in {MulU32Loop(x.words, x.len, n, 0, 0)} |->
         IF m[2] # 0
         THEN [x EXCEPT !.words = [m[1] EXCEPT ![x.len] = m[2] % Base],
                        !.len = x.len + 1]
         ELSE [x EXCEPT !.words = m[1]]])

\* mul_assign, `if rhs.len == 1 { self.mul(rhs.words[0]); return; }`:
\* Mul<u32>::mul takes self by value (BigNum is Copy), so the product is
\* computed on a copy and dropped; *self is left as it was.
MulSingleWord(x, rhs) ==
    LET dropped == mul_assign_u32(x, rhs.words[0])
    IN  x

\* impl MulAssign<&BigNum> for BigNum
mul_assign(x, rhs) ==
    IF x.len = HalfWords /\ rhs.len = HalfWords THEN mul8x8(x, rhs)
    ELSE IF rhs.len = 1 THEN MulSingleWord(x, rhs)
    ELSE MulSchoolbook(x, rhs)

\* ---------------------------------------------------------------- shifts

\* impl ShrAssign<u32> for BigNum, from the top word down
RECURSIVE ShrLoop(_, _, _, _)
ShrLoop(sw, i, shift, carry) ==
    IF i < 0 THEN sw
    ELSE LET tmp == sw[i]
         IN  ShrLoop([sw EXCEPT ![i] = (carry + (tmp \div Pow2(shift))) % Base],
                     i - 1, shift,
                     \* carry = tmp << (32 - shift); only its low word is read
                     (tmp * Pow2(WordBits - shift)) % Base)

shr_assign(x, shift) ==
    Let([w1 \in {ShrLoop(x.words, x.len - 1, shift, 0)} |->
         IF x.len > 1 /\ w1[x.len - 1] = 0
         THEN [x EXCEPT !.words = w1, !.len = x.len - 1]
         ELSE [x EXCEPT !.words = w1]])

\* u32::trailing_zeros (32, here WordBits, for a zero word)
RECURSIVE trailing_zeros(_)
trailing_zeros(word) ==
    IF word = 0 THEN WordBits
    ELSE IF word % 2 = 1 THEN 0
    ELSE 1 + trailing_zeros(word \div 2)

\* impl AddAssign<u32> for BigNum
RECURSIVE AddU32Loop(_, _, _, _)
AddU32Loop(sw, slen, i, carry) ==
    IF i >= slen THEN <<sw, carry>>
    ELSE LET c1 == carry + sw[i]
             w1 == [sw EXCEPT ![i] = c1 % Base]
         IN  IF c1 \div Base = 0 THEN <<w1, 0>>
             ELSE AddU32Loop(w1, slen, i + 1, c1 \div Base)

\* a variant of add_assign_u32 that forgets the addend
add_assign_u32_none(x, n) == x

add_assign_u32(x, n) ==
    Let([s \in {AddU32Loop(x.words, x.len, 0, n)} |->
         IF s[2] # 0
         THEN [x EXCEPT !.words = [s[1] EXCEPT ![x.len] = s[2] % Base],
                        !.len = x.len + 1]
         ELSE [x EXCEPT !.words = s[1]]])

\* fn double
RECURSIVE DoubleLoop(_, _, _, _)
DoubleLoop(sw, slen, i, carry) ==
    IF i >= slen THEN <<sw, carry>>
    ELSE LET w == sw[i] * 2 + carry
         IN  DoubleLoop([sw EXCEPT ![i] = w % Base], slen, i + 1, w \div Base)

double(x) ==
    Let([s \in {DoubleLoop(x.words, x.len, 0, 0)} |->
         IF s[2] # 0
         THEN [x EXCEPT !.words = [s[1] EXCEPT ![x.len] = s[2] % Base],
                        !.len = x.len + 1]
         ELSE [x EXCEPT !.words = s[1]]])

\* fn is_even / fn is_odd
is_even(x) == x.words[0] % 2 = 0

is_odd(x) == x.words[0] % 2 = 1

\* ----------------------------------------------------------- conversions

\* bytes of a word (a u32 is 4 bytes) and the length of a scalar or
\* coordinate buffer (32 bytes in the source)
BytesPerWord == 4
ByteBase == Pow2(WordBits \div BytesPerWord)
BufLen == BytesPerWord * HalfWords

\* fn read_u32: the big-endian value of the 4 bytes buf[at .. at+4]
\* (Rust indices; a TLA+ sequence starts at 1)
\* a variant of read_u32 that takes the four bytes little-endian
read_u32_le(buf, at) ==
    ((buf[at + 4] * ByteBase + buf[at + 3]) * ByteBase + buf[at + 2]) * ByteBase
        + buf[at + 1]

read_u32(buf, at) ==
    ((buf[at + 1] * ByteBase + buf[at + 2]) * ByteBase + buf[at + 3]) * ByteBase
        + buf[at + 4]

\* a variant of write_u32 that stores the four bytes little-endian
write_u32_le(val, buf, at) ==
    [i \in 1..Len(buf) |->
        IF i = at + 4 THEN val \div (ByteBase * ByteBase * ByteBase)
        ELSE IF i = at + 3 THEN (val \div (ByteBase * ByteBase)) % ByteBase
        ELSE IF i = at + 2 THEN (val \div ByteBase) % ByteBase
        ELSE IF i = at + 1 THEN val % ByteBase
        ELSE buf[i]]

\* fn write_u32: val stored big-endian into buf[at .. at+4]
write_u32(val, buf, at) ==
    [i \in 1..Len(buf) |->
        IF i = at + 1 THEN val \div (ByteBase * ByteBase * ByteBase)
        ELSE IF i = at + 2 THEN (val \div (ByteBase * ByteBase)) % ByteBase
        ELSE IF i = at + 3 THEN (val \div ByteBase) % ByteBase
        ELSE IF i = at + 4 THEN val % ByteBase
        ELSE buf[i]]

\* impl From<&[u8]> for BigNum: words[i] is read from buf[28-4i .. 32-4i]
FromBytes(buf) ==
    strip(MkBigNum(FALSE, Len(buf) \div BytesPerWord,
                   Array([i \in 0..(NumWords - 1) |->
                             IF i < HalfWords
                             THEN read_u32(buf, BytesPerWord * (HalfWords - 1 - i))
                             ELSE 0], NumWords)))

\* impl From<u32> for BigNum
FromU32(n) == MkBigNum(FALSE, 1, [ZeroWords EXCEPT ![0] = n])

\* fn write_bytes_to: words[0] .. words[7] go to buf[28..32] .. buf[0..4],
\* whatever len is
RECURSIVE WriteWords(_, _, _)
WriteWords(x, buf, i) ==
    IF i >= HalfWords THEN buf
    ELSE WriteWords(x, write_u32(x.words[i], buf,
                                 BytesPerWord * (HalfWords - 1 - i)), i + 1)

write_bytes_to(x, buf) == WriteWords(x, buf, 0)

\* fn split: the words above the low 8 leave as a new BigNum (all 8 storage
\* words are copied, len says how many count); self keeps the low 8
SplitHigh(x) ==
    IF x.len < HalfWords + 1 THEN ZERO
    ELSE MkBigNum(FALSE, x.len - HalfWords,
                  Array([i \in 0..(NumWords - 1) |->
                            IF i < HalfWords THEN x.words[HalfWords + i] ELSE 0],
                        NumWords))

SplitLow(x) == IF x.len < HalfWords + 1 THEN x ELSE [x EXCEPT !.len = HalfWords]

\* ------------------------------------------------------ the field, mod p

\* pub static P: words [0xfffffc2f, 0xfffffffe, 0xffffffff, ...], len 8
P ==
    MkBigNum(FALSE, HalfWords,
             Array([i \in 0..(NumWords - 1) |->
                       IF i = 0 THEN Base - PLow
                       ELSE IF i = 1 THEN Base - 2
                       ELSE IF i < HalfWords THEN Base - 1
                       ELSE 0], NumWords))

\* fn red_neg
red_neg(x) == IF EqU32(x, 0) THEN ZERO ELSE sub_assign(P, x)

\* fn red_add
red_add(x, num) ==
    Let([res \in {add_assign(x, num)} |->
         IF cmp(res, P) >= 0 THEN sub_assign(res, P) ELSE res])

\* fn red_double
red_double(x) ==
    Let([d \in {double(x)} |->
         IF cmp(d, P) >= 0 THEN sub_assign(d, P) ELSE d])

\* fn red_add_mut
red_add_mut(x, num) == red_add(x, num)

\* fn red_sub_twice: `while res.negative { res += P }`
RECURSIVE AddPWhileNegative(_)
AddPWhileNegative(res) ==
    IF res.negative THEN AddPWhileNegative(add_assign(res, P)) ELSE res

red_sub_twice(x, num) == AddPWhileNegative(sub_assign(sub_assign(x, num), num))

\* a variant of red_sub that leaves a negative difference as it is
red_sub_raw(x, num) == sub_assign(x, num)

\* fn red_sub
red_sub(x, num) ==
    Let([res \in {sub_assign(x, num)} |->
         IF res.negative THEN add_assign(res, P) ELSE res])

\* fn mul_k: self *= 2^32 + 0x3d1, two zero words appended first
RECURSIVE MulKLoop(_, _, _, _)
MulKLoop(sw, slen, i, low) ==
    IF i >= slen THEN sw
    ELSE LET w    == sw[i]
             low1 == low + w * PLow
         IN  MulKLoop([sw EXCEPT ![i] = low1 % Base], slen, i + 1,
                      w + (low1 \div Base))

\* a variant of mul_k that forgets the word shift: self *= 0x3d1 only
mul_k_low(x) == mul_assign_u32(x, PLow)

mul_k(x) ==
    LET w0 == [x.words EXCEPT ![x.len] = 0, ![x.len + 1] = 0]
    IN  strip([x EXCEPT !.words = MulKLoop(w0, x.len + 2, 0, 0),
                        !.len = x.len + 2])

\* red_reduce, one fold: high = self.split(); high.mul_k(); self += high
Fold(x) == add_assign(SplitLow(x), mul_k(SplitHigh(x)))

\* red_reduce, the closing match on cmp(P): Equal leaves self as it is
ReduceFinal(x) ==
    Let([o \in {cmp(x, P)} |->
         IF o = 0 THEN x
         ELSE IF o > 0 THEN sub_assign(x, P)
         ELSE strip(x)])

\* fn red_reduce
red_reduce(x) ==
    Let([f1 \in {Fold(x)} |->
         ReduceFinal(IF f1.len > HalfWords THEN Fold(f1) ELSE f1)])

\* fn red_mul / fn red_mul_mut
red_mul(x, num) == red_reduce(mul_assign(x, num))

\* fn red_sqr
red_sqr(x) == red_reduce(mul_assign(x, x))

\* red_invm, `for _ in 0..zeros { if x.is_odd() { x += P }; x >>= 1 }`
RECURSIVE HalveMod(_, _)
HalveMod(x, n) ==
    IF n = 0 THEN x
    ELSE IF n = 1
    THEN shr_assign(IF is_odd(x) THEN add_assign(x, P) ELSE x, 1)
    ELSE Let([h \in {HalveMod(x, n \div 2)} |-> HalveMod(h, n - (n \div 2))])

\* a variant of the pass that leaves the locals as they are
InvmStep_idle(s) == s

\* red_invm, the body of the loop
InvmStep(s) ==
    Let([az \in {trailing_zeros(s.a.words[0])} |->
    Let([a1 \in {IF az # 0 THEN shr_assign(s.a, az) ELSE s.a} |->
    Let([x1 \in {IF az # 0 THEN HalveMod(s.x1, az) ELSE s.x1} |->
    Let([bz \in {trailing_zeros(s.b.words[0])} |->
    Let([b1 \in {IF bz # 0 THEN shr_assign(s.b, bz) ELSE s.b} |->
    Let([x2 \in {IF bz # 0 THEN HalveMod(s.x2, bz) ELSE s.x2} |->
    IF cmp(a1, b1) >= 0
    THEN [a |-> sub_assign(a1, b1), b |-> b1,
          x1 |-> sub_assign(x1, x2), x2 |-> x2]
    ELSE [a |-> a1, b |-> sub_assign(b1, a1),
          x1 |-> x1, x2 |-> sub_assign(x2, x1)]])])])])])])

\* red_invm, `while self > 1 && b > 1`: at most n more passes.  The passes
\* are split in halves so that the evaluation nests log n deep, not n deep.
RECURSIVE InvmLoop(_, _)
InvmLoop(s, n) ==
    IF n = 0 \/ ~(CmpU32(s.a, 1) > 0 /\ CmpU32(s.b, 1) > 0) THEN s
    ELSE IF n = 1 THEN InvmStep(s)
    ELSE Let([h \in {InvmLoop(s, n \div 2)} |-> InvmLoop(h, n - (n \div 2))])

\* every pass halves a or b at least once or leaves their difference, which
\* is even: no run is longer than this many passes
InvmPasses == 4 * WordBits * HalfWords

\* red_invm after the loop: pick x1 or x2 and bring it into [0, p)
InvmFinish(s) ==
    Let([r0 \in {IF EqU32(s.a, 1) THEN s.x1 ELSE s.x2} |->
    Let([r1 \in {IF r0.negative THEN add_assign(r0, P) ELSE r0} |->
    IF r1.negative
    THEN red_neg(red_reduce([r1 EXCEPT !.negative = FALSE]))
    ELSE red_reduce(r1)])])

\* fn red_invm
red_invm(x) ==
    InvmFinish(InvmLoop([a |-> x, b |-> P, x1 |-> ONE, x2 |-> ZERO], InvmPasses))

\* ------------------------------------------------------------------ NAF

\* capacity of NAF.data ([i8; 512] in the source: two digits per scalar bit)
\* and of NAFRepr.data ([i8; 128]: four digits per entry)
NafCap == 2 * WordBits * HalfWords
NafReprCap == NafCap \div 4

\* i8 <-> its 8-bit pattern
ToU8(v) == v % 256

ToI8(u) == IF u % 256 >= 128 THEN (u % 256) - 256 ELSE u % 256

\* the bitwise | of two 8-bit patterns
RECURSIVE OrBits(_, _, _)
OrBits(u, v, n) ==
    IF n = 0 THEN 0
    ELSE (IF u % 2 = 1 \/ v % 2 = 1 THEN 1 ELSE 0)
         + 2 * OrBits(u \div 2, v \div 2, n - 1)

\* NAFRepr::new
NAFRepr_new ==
    [data |-> Array([i \in 0..(NafReprCap - 1) |-> 0], NafReprCap),
     cur |-> 0, bit |-> 0]

\* NAFRepr::len
NAFRepr_len(naf) == naf.cur + (IF naf.bit # 0 THEN 1 ELSE 0)

\* a variant of push that shifts one bit further
NAFRepr_push_far(naf, val) ==
    LET shifted == ToI8(val * Pow2(naf.bit + 1))
        merged  == ToI8(OrBits(ToU8(naf.data[naf.cur]), ToU8(shifted), 8))
        bit1    == naf.bit + 1
    IN  [data |-> [naf.data EXCEPT ![naf.cur] = merged],
         cur  |-> IF bit1 = 4 THEN naf.cur + 1 ELSE naf.cur,
         bit  |-> IF bit1 = 4 THEN 0 ELSE bit1]

\* NAFRepr::push: data[cur] |= val << bit, on i8
NAFRepr_push(naf, val) ==
    LET shifted == ToI8(val * Pow2(naf.bit))
        merged  == ToI8(OrBits(ToU8(naf.data[naf.cur]), ToU8(shifted), 8))
        bit1    == naf.bit + 1
    IN  [data |-> [naf.data EXCEPT ![naf.cur] = merged],
         cur  |-> IF bit1 = 4 THEN naf.cur + 1 ELSE naf.cur,
         bit  |-> IF bit1 = 4 THEN 0 ELSE bit1]

\* NAFRepr::push_zeros
NAFRepr_push_zeros(naf, count) ==
    LET c == count + naf.bit
    IN  [naf EXCEPT !.cur = naf.cur + (c \div 4), !.bit = c % 4]

\* NAFRepr::as_slice: data[..len()], as a sequence
NAFRepr_as_slice(naf) == [i \in 1..NAFRepr_len(naf) |-> naf.data[i - 1]]

\* NAF::new, NAF::push, NAF::push_zeros, NAF::as_slice
NAF_new == [data |-> Array([i \in 0..(NafCap - 1) |-> 0], NafCap), len |-> 0]

NAF_push(naf, val) ==
    [data |-> [naf.data EXCEPT ![naf.len] = val], len |-> naf.len + 1]

\* a variant of push_zeros that does not move len
NAF_push_zeros_stay(naf, count) == naf

NAF_push_zeros(naf, count) == [naf EXCEPT !.len = naf.len + count]

NAF_as_slice(naf) == [i \in 1..naf.len |-> naf.data[i - 1]]

\* fn get_naf1: `while k != 0`
RECURSIVE GetNaf1Loop(_, _)
GetNaf1Loop(k, naf) ==
    IF EqU32(k, 0) THEN naf
    ELSE LET zeros == trailing_zeros(k.words[0])
             m     == k.words[0] % 4
             k1    == [k EXCEPT !.words[0] = k.words[0] - m]
         IN
         Let([next \in {
                 IF zeros # 0
                 THEN <<shr_assign(k, zeros), NAFRepr_push_zeros(naf, zeros)>>
                 ELSE IF m = 3
                 THEN <<shr_assign(add_assign_u32(k, 1), 2),
                        NAFRepr_push_zeros(NAFRepr_push(naf, -1), 1)>>
                 ELSE <<IF EqU32(k1, 0) THEN k1 ELSE shr_assign(k1, 1),
                        NAFRepr_push(naf, m)>>} |->
         GetNaf1Loop(next[1], next[2])])

get_naf1(x) == GetNaf1Loop(x, NAFRepr_new)

\* fn get_naf(w): `while k != 0`, with ws = 1 << (w + 1)
RECURSIVE GetNafLoop(_, _, _)
GetNafLoop(k, w, naf) ==
    IF EqU32(k, 0) THEN naf
    ELSE LET zeros == trailing_zeros(k.words[0])
             ws    == Pow2(w + 1)
             ws2   == ws \div 2
             m     == k.words[0] % ws
             k1    == [k EXCEPT !.words[0] = k.words[0] - m]
         IN
         Let([next \in {
                 IF zeros # 0
                 THEN <<shr_assign(k, zeros), NAF_push_zeros(naf, zeros)>>
                 ELSE IF m > ws2
                 THEN <<shr_assign(add_assign_u32(k, m - ws2), 1),
                        NAF_push(naf, ToI8(ws2 - m))>>
                 ELSE IF EqU32(k1, 0)
                 THEN <<k1, NAF_push(naf, ToI8(m))>>
                 ELSE <<shr_assign(k1, w),
                        NAF_push_zeros(NAF_push(naf, ToI8(m)), w - 1)>>} |->
         GetNafLoop(next[1], w, next[2])])

get_naf(x, w) == GetNafLoop(x, w, NAF_new)

\* ------------------------------------------------------- ECPoint (affine)

\* ECPoint::new
ECPoint_new(x, y) == [x |-> x, y |-> y, inf |-> FALSE]

\* pub const INF
INF == [x |-> ZERO, y |-> ZERO, inf |-> TRUE]

\* ECPoint::double
ECPoint_double(pt) ==
    IF pt.inf THEN pt
    ELSE Let([yy \in {red_add(pt.y, pt.y)} |->
         IF EqU32(yy, 0) THEN [pt EXCEPT !.inf = TRUE]
         ELSE
         Let([xsqr \in {red_sqr(pt.x)}, yinv \in {red_invm(yy)} |->
         Let([s \in {red_mul(red_add(red_add(xsqr, xsqr), xsqr), yinv)} |->
         Let([nx \in {red_sub(red_sqr(s), red_add(pt.x, pt.x))} |->
         [x |-> nx,
          y |-> red_sub(red_mul(s, red_sub(pt.x, nx)), pt.y),
          inf |-> FALSE]])])])])

\* impl AddAssign<&ECPoint> for ECPoint
ECPoint_add(pt, rhs) ==
    IF pt.inf THEN rhs
    ELSE IF rhs.inf THEN pt
    ELSE IF BigNumEq(pt.x, rhs.x)
    THEN IF BigNumEq(pt.y, rhs.y) THEN ECPoint_double(pt)
         ELSE [pt EXCEPT !.inf = TRUE]
    ELSE
    Let([s0 \in {red_sub(pt.y, rhs.y)} |->
    Let([s \in {IF ~EqU32(s0, 0)
         THEN Let([xinv \in {red_invm(red_sub(pt.x, rhs.x))} |->
                   red_mul(s0, xinv)])
         ELSE s0} |->
    Let([nx \in {red_sub(red_sub(red_sqr(s), pt.x), rhs.x)} |->
    [x |-> nx,
     y |-> red_sub(red_mul(s, red_sub(pt.x, nx)), pt.y),
     inf |-> FALSE]])])])

\* a variant of neg that leaves the point as it is
ECPoint_neg_same(pt) == pt

\* ECPoint::neg
ECPoint_neg(pt) == IF pt.inf THEN pt ELSE ECPoint_new(pt.x, red_neg(pt.y))

\* ECPoint::to_public_key: [0x04, x (32 bytes), y (32 bytes)]
to_public_key(pt) ==
    LET zeros == [i \in 1..BufLen |-> 0]
    IN  <<4>> \o write_bytes_to(pt.x, zeros) \o write_bytes_to(pt.y, zeros)

\* ----------------------------------------------------- ECJPoint (Jacobian)

\* ECJPoint::new, ECJPoint::default, ECJPoint::inf
ECJPoint_new(x, y, z) == [x |-> x, y |-> y, z |-> z]

ECJPoint_default == ECJPoint_new(ONE, ONE, ZERO)

ECJPoint_inf(j) == EqU32(j.z, 0)

\* impl From<ECPoint> for ECJPoint
ECJPoint_from(pt) ==
    IF pt.inf THEN ECJPoint_default ELSE ECJPoint_new(pt.x, pt.y, ONE)

\* impl From<ECJPoint> for ECPoint
ECPoint_from(j) ==
    IF ECJPoint_inf(j) THEN INF
    ELSE Let([zinv \in {red_invm(j.z)} |->
         Let([zinv2 \in {red_sqr(zinv)} |->
         ECPoint_new(red_mul(j.x, zinv2), red_mul(red_mul(j.y, zinv2), zinv))])])

\* ECJPoint::double, the branch `self.z == 1` (mdbl-2007-bl)
DoubleZ1(j) ==
    Let([xx \in {red_sqr(j.x)} |->
    Let([yy \in {red_sqr(j.y)} |->
    Let([yyyy \in {red_sqr(yy)} |->
    Let([s \in {red_double(red_sub(red_sub(red_sqr(red_add(j.x, yy)), xx), yyyy))} |->
    Let([m \in {red_add(red_add(xx, xx), xx)} |->
    Let([t \in {red_sub(red_sub(red_sqr(m), s), s)} |->
    Let([yyyy8 \in {red_double(red_double(red_double(yyyy)))} |->
    ECJPoint_new(t, red_sub(red_mul(m, red_sub(s, t)), yyyy8),
                 red_add(j.y, j.y))])])])])])])])

\* ECJPoint::double, the general branch (dbl-2009-l)
DoubleGeneral(j) ==
    Let([a \in {red_sqr(j.x)} |->
    Let([b \in {red_sqr(j.y)} |->
    Let([c \in {red_sqr(b)} |->
    Let([d \in {red_double(red_sub(red_sub(red_sqr(red_add(j.x, b)), a), c))} |->
    Let([e \in {red_add(red_add(a, a), a)} |->
    Let([f \in {red_sqr(e)} |->
    Let([c8 \in {red_double(red_double(red_double(c)))} |->
    Let([nx \in {red_sub(red_sub(f, d), d)} |->
    Let([nz \in {red_mul(j.y, j.z)} |->
    ECJPoint_new(nx, red_sub(red_mul(e, red_sub(d, nx)), c8),
                 red_add(nz, nz))])])])])])])])])])

\* ECJPoint::double
ECJPoint_double(j) ==
    IF ECJPoint_inf(j) THEN j
    ELSE IF EqU32(j.z, 1) THEN DoubleZ1(j)
    ELSE DoubleGeneral(j)

\* impl AddAssign<&ECJPoint> for ECJPoint
ECJPoint_add(j, q) ==
    IF ECJPoint_inf(j) THEN q
    ELSE IF ECJPoint_inf(q) THEN j
    ELSE Let([pz2 \in {red_sqr(q.z)} |->
         Let([z2 \in {red_sqr(j.z)} |->
         Let([u1 \in {red_mul(j.x, pz2)} |->
         Let([u2 \in {red_mul(q.x, z2)} |->
         Let([s1 \in {red_mul(red_mul(j.y, pz2), q.z)} |->
         Let([s2 \in {red_mul(red_mul(q.y, z2), j.z)} |->
         Let([h \in {red_sub(u1, u2)} |->
         Let([r \in {red_sub(s1, s2)} |->
         IF EqU32(h, 0)
         THEN IF EqU32(r, 0) THEN ECJPoint_double(j) ELSE ECJPoint_default
         ELSE
         Let([h2 \in {red_sqr(h)} |->
         Let([v \in {red_mul(u1, h2)} |->
         Let([h3 \in {red_mul(h2, h)} |->
         Let([nx \in {red_sub(red_sub(red_add(red_sqr(r), h3), v), v)} |->
         ECJPoint_new(nx,
                      red_sub(red_mul(r, red_sub(v, nx)), red_mul(s1, h3)),
                      red_mul(red_mul(j.z, q.z), h))])])])])])])])])])])])])

\* ECJPoint::mixed_add (add-1998-cmo-2 with p.z = 1)
mixed_add(j, pt) ==
    IF ECJPoint_inf(j) THEN ECJPoint_from(pt)
    ELSE IF pt.inf THEN j
    ELSE Let([z2 \in {red_sqr(j.z)} |->
         Let([u2 \in {red_mul(pt.x, z2)} |->
         Let([s2 \in {red_mul(red_mul(pt.y, z2), j.z)} |->
         Let([h \in {red_sub(j.x, u2)} |->
         Let([r \in {red_sub(j.y, s2)} |->
         IF EqU32(h, 0)
         THEN IF EqU32(r, 0) THEN ECJPoint_double(j)
              ELSE ECJPoint_new(ONE, ONE, ZERO)
         ELSE
         Let([h2 \in {red_sqr(h)} |->
         Let([v \in {red_mul(j.x, h2)} |->
         Let([h3 \in {red_mul(h2, h)} |->
         Let([nx \in {red_sub_twice(red_add(red_sqr(r), h3), v)} |->
         ECJPoint_new(nx,
                      red_sub(red_mul(r, red_sub(v, nx)), red_mul(j.y, h3)),
                      red_mul(j.z, h))])])])])])])])])])

\* ------------------------------------------------- the generator table

\* the generator's coordinates, big-endian bytes, as ECPointG::new spells them
GxBytes == <<1, 3, 2, 1,  2, 3, 3, 2,  1, 2, 1, 3>>

GyBytes == <<3, 3, 0, 1,  0, 3, 1, 3,  2, 3, 3, 1>>

\* `points.len = 1 + (257 / dstep) = 66`, dstep = 4
NumPoints == 1 + ((WordBits * HalfWords + 1) \div 4)

\* ECPointG::new, `acc.double()` four times
\* a variant of the table step with three doublings
Double3(pt) == ECPoint_double(ECPoint_double(ECPoint_double(pt)))

Double4(pt) == ECPoint_double(ECPoint_double(ECPoint_double(ECPoint_double(pt))))

\* ECPointG::new, the loop over points[1..]: entry i is entry i-1 doubled
\* four times
RECURSIVE TableFrom(_, _)
TableFrom(acc, i) ==
    IF i >= NumPoints THEN <<>>
    ELSE <<acc>> \o TableFrom(Double4(acc), i + 1)

\* ECPointG::new: points and negpoints, indexed from 0.  (The field `naf`,
\* NAFPoints::new(7, acc), is built from a copy of acc and is read by nothing
\* in mul; it is left out.)
ECPointG_new ==
    Let([acc \in {ECPoint_new(FromBytes(GxBytes), FromBytes(GyBytes))} |->
    Let([tab \in {TableFrom(acc, 0)} |->
    [ecpoint   |-> acc,
     points    |-> [i \in 0..(NumPoints - 1) |-> tab[i + 1]],
     negpoints |-> [i \in 0..(NumPoints - 1) |-> ECPoint_neg(tab[i + 1])]]])])

\* ECPointG::mul, `for (ri, rval) in repr.iter().enumerate()` at magnitude i
RECURSIVE MulScan(_, _, _, _, _)
MulScan(tbl, repr, i, ri, bj) ==
    IF ri > Len(repr) THEN bj
    ELSE Let([b1 \in {IF repr[ri] = i THEN mixed_add(bj, tbl.points[ri - 1])
                      ELSE IF repr[ri] = -i
                      THEN mixed_add(bj, tbl.negpoints[ri - 1])
                      ELSE bj} |->
         MulScan(tbl, repr, i, ri + 1, b1)])

\* ECPointG::mul, `while i > 0`: scan, a += &b, i -= 1; b is carried over
RECURSIVE MulLoop(_, _, _, _, _)
MulLoop(tbl, repr, i, aj, bj) ==
    IF i <= 0 THEN aj
    ELSE Let([b1 \in {MulScan(tbl, repr, i, 1, bj)} |->
         Let([a1 \in {ECJPoint_add(aj, b1)} |->
         MulLoop(tbl, repr, i - 1, a1, b1)])])

\* ECPointG::mul
ECPointG_mul(tbl, num) ==
    ECPoint_from(MulLoop(tbl, NAFRepr_as_slice(get_naf1(num)), 10,
                         ECJPoint_default, ECJPoint_default))

\* --------------------------------------------------------------- facade

\* pub static N (the order of the generator), len 8
N ==
    MkBigNum(FALSE, HalfWords,
             Array([i \in 0..(NumWords - 1) |->
                       IF i = 0 THEN 161 ELSE IF i = 1 THEN 227
                       ELSE IF i = 2 THEN 255 ELSE 0], NumWords))

\* fn is_overflow
\* a variant of is_overflow that lets n itself through
is_overflow_above(x) == cmp(x, N) > 0

is_overflow(x) == cmp(x, N) >= 0

\* pub fn is_valid_secret
is_valid_secret(bytes) ==
    IF Len(bytes) # BufLen THEN FALSE
    ELSE Let([num \in {FromBytes(bytes)} |->
         ~is_overflow(num) /\ ~EqU32(num, 0)])

\* ------------------------------------------- reference arithmetic
\* Plain integers, used only to state what the operations should compute.

\* the prime as an integer
RefP == Pow2(WordBits * HalfWords) - Base - PLow

\* the integer a buffer spells, most significant byte first
RECURSIVE BufValueFrom(_, _, _)
BufValueFrom(buf, i, acc) ==
    IF i > Len(buf) THEN acc ELSE BufValueFrom(buf, i + 1, acc * ByteBase + buf[i])

BufValue(buf) == BufValueFrom(buf, 1, 0)

\* the BufLen-byte big-endian spelling of an integer
RefBytes(v) ==
    [i \in 1..BufLen |-> (v \div Pow2(2 * (BufLen - i))) % ByteBase]

\* the magnitude held in the low HalfWords words of a number
RECURSIVE MagnitudeFrom(_, _)
MagnitudeFrom(x, i) ==
    IF i >= x.len \/ i >= HalfWords THEN 0
    ELSE x.words[i] + Base * MagnitudeFrom(x, i + 1)

Magnitude(x) == MagnitudeFrom(x, 0)

\* a * b mod m without leaving 32 bits, for a, b, m below 2^24: b is taken
\* in four digits of 6 bits
MulMod(a, b, m) ==
    LET d3 == (b \div 262144) % 64
        d2 == (b \div 4096) % 64
        d1 == (b \div 64) % 64
        d0 == b % 64
        r3 == (a * d3) % m
        r2 == (r3 * 64 + a * d2) % m
        r1 == (r2 * 64 + a * d1) % m
    IN  (r1 * 64 + a * d0) % m

\* the inverse of a modulo m, extended Euclid
RECURSIVE Egcd(_, _, _, _)
Egcd(r0, r1, t0, t1) ==
    IF r1 = 0 THEN t0
    ELSE LET q == r0 \div r1 IN Egcd(r1, r0 - q * r1, t1, t0 - q * t1)

InvMod(a, m) == Egcd(m, a % m, 0, 1) % m

\* the value modulo p of a number of up to NumWords words
RECURSIVE ModPFrom(_, _, _)
ModPFrom(x, i, acc) ==
    IF i < 0 THEN acc
    ELSE ModPFrom(x, i - 1, (MulMod(acc, Base, RefP) + x.words[i]) % RefP)

ModP(x) == ModPFrom(x, x.len - 1, 0)

\* the affine group law on integer coordinates
RefInf == [inf |-> TRUE, x |-> 0, y |-> 0]

RefPoint(x, y) == [inf |-> FALSE, x |-> x, y |-> y]

RefNeg(pt) == IF pt.inf THEN pt ELSE RefPoint(pt.x, (RefP - pt.y) % RefP)

RefChord(p1, p2, num, den) ==
    Let([lam \in {MulMod(num, InvMod(den, RefP), RefP)} |->
    Let([x3 \in {(MulMod(lam, lam, RefP) + 2 * RefP - p1.x - p2.x) % RefP} |->
         RefPoint(x3, (MulMod(lam, (p1.x + RefP - x3) % RefP, RefP)
                         + RefP - p1.y) % RefP)])])

RefAdd(p1, p2) ==
    IF p1.inf THEN p2
    ELSE IF p2.inf THEN p1
    ELSE IF p1.x = p2.x /\ p1.y # p2.y THEN RefInf
    ELSE IF p1.x = p2.x /\ p1.y = 0 THEN RefInf
    ELSE IF p1.x = p2.x
         THEN RefChord(p1, p2, (3 * MulMod(p1.x, p1.x, RefP)) % RefP,
                       (2 * p1.y) % RefP)
    ELSE RefChord(p1, p2, (p2.y + RefP - p1.y) % RefP,
                  (p2.x + RefP - p1.x) % RefP)

RefDouble(pt) == RefAdd(pt, pt)

\* k times pt for k < 16, and for any k by base-16 digits of k
RefSmall(k, pt) ==
    Let([p2 \in {RefDouble(pt)} |->
    Let([p4 \in {RefDouble(p2)} |->
    Let([p8 \in {RefDouble(p4)} |->
        RefAdd(RefAdd(IF k % 2 = 1 THEN pt ELSE RefInf,
                      IF (k \div 2) % 2 = 1 THEN p2 ELSE RefInf),
               RefAdd(IF (k \div 4) % 2 = 1 THEN p4 ELSE RefInf,
                      IF (k \div 8) % 2 = 1 THEN p8 ELSE RefInf))])])])

RECURSIVE RefMul(_, _)
RefMul(k, pt) ==
    IF k < 16 THEN RefSmall(k, pt)
    ELSE Let([h \in {RefMul(k \div 16, pt)} |->
         RefAdd(RefDouble(RefDouble(RefDouble(RefDouble(h)))),
                RefSmall(k % 16, pt))])

RefG == RefPoint(BufValue(GxBytes), BufValue(GyBytes))

\* an affine point of the program as a reference point
PointValue(pt) ==
    IF pt.inf THEN RefInf ELSE RefPoint(Magnitude(pt.x), Magnitude(pt.y))

\* a point of the program holds exactly this reference point: coordinates
\* non-negative, below p, of at most HalfWords words
HoldsPoint(pt, ref) ==
    /\ pt.inf = ref.inf
    /\ ~pt.inf => /\ ~pt.x.negative /\ ~pt.y.negative
                  /\ pt.x.len <= HalfWords /\ pt.y.len <= HalfWords
                  /\ Magnitude(pt.x) = ref.x /\ Magnitude(pt.y) = ref.y

\* the magnitude of a number of up to HalfWords + 1 words, below 2^31
RECURSIVE ValueFrom(_, _)
ValueFrom(x, i) ==
    IF i >= x.len THEN 0 ELSE x.words[i] + Base * ValueFrom(x, i + 1)

SignedValue(x) == IF x.negative THEN 0 - ValueFrom(x, 0) ELSE ValueFrom(x, 0)

\* word i of a number, zero from len on
WordAt(x, i) == IF i < x.len THEN x.words[i] ELSE 0

\* the exact product of two magnitudes, word by word: column k is the sum
\* of the products of words i and k - i, plus what the column below carried
RECURSIVE ColumnSum(_, _, _, _)
ColumnSum(x, y, k, i) ==
    IF i > k THEN 0
    ELSE WordAt(x, i) * WordAt(y, k - i) + ColumnSum(x, y, k, i + 1)

RECURSIVE ProductWords(_, _, _, _)
ProductWords(x, y, k, carry) ==
    IF k >= NumWords THEN <<>>
    ELSE LET total == ColumnSum(x, y, k, 0) + carry
         IN  <<total % Base>> \o ProductWords(x, y, k + 1, total \div Base)

RefProduct(x, y) == ProductWords(x, y, 0, 0)

\* the sum of d_i * 2^i over a digit sequence, from the top down
RECURSIVE NafValueFrom(_, _)
NafValueFrom(ds, i) ==
    IF i > Len(ds) THEN 0 ELSE ds[i] + 2 * NafValueFrom(ds, i + 1)

NafValue(ds) == NafValueFrom(ds, 1)

\* ------------------------------------------------------------ inputs

\* how many values are taken at each end of a range
SmallMax == 3

\* how many scalars are multiplied from each end of 1..n-1
MulMax == 30

\* the largest scalar of the low range that is recoded
NafMax == 24

\* the widest window that is recoded (get_naf is called with w <= 7)
MaxW == 7

\* the order of the generator as an integer
RefN == Magnitude(N)

\* values at the word boundaries
Boundaries ==
    {Base - 1, Base, Base + 1, Base * Base - 1, Base * Base, Base * Base + 1}

\* coordinates of the table's points: field elements without structure
TableCoords ==
    UNION {{RefMul(Pow2(4 * i), RefG).x, RefMul(Pow2(4 * i), RefG).y} : i \in 0..1}

\* a number built as the program builds it, from its bytes
FromValue(v) == FromBytes(RefBytes(v))

FieldValues ==
    (0..SmallMax) \cup {RefP - i : i \in 1..SmallMax} \cup Boundaries
        \cup {(RefP - 1) \div 2, (RefP + 1) \div 2} \cup TableCoords

FieldInputs == {FromValue(v) : v \in FieldValues}

\* numbers of HalfWords words that are not below p
AboveP == {FromValue(v) : v \in (RefP..(RefP + SmallMax))
                              \cup {Pow2(WordBits * HalfWords) - i : i \in 1..SmallMax}}

\* every word 0xff, len words
AllOnes(len) ==
    MkBigNum(FALSE, len,
             Array([i \in 0..(NumWords - 1) |-> IF i < len THEN WordMax ELSE 0],
                   NumWords))

\* p shifted up by j whole words: a multiple of p
ShiftedP(j) ==
    MkBigNum(FALSE, HalfWords + j,
             Array([i \in 0..(NumWords - 1) |->
                       IF i >= j /\ i < HalfWords + j THEN P.words[i - j] ELSE 0],
                   NumWords))

\* full products of field elements of HalfWords words, as red_mul forms them
FullInputs == {x \in FieldInputs : x.len = HalfWords}

Products == {mul_assign(x, y) : x, y \in FullInputs}

WideInputs ==
    FieldInputs \cup AboveP \cup Products
        \cup {AllOnes(l) : l \in 1..NumWords}
        \cup {ShiftedP(j) : j \in 0..HalfWords}

SecretValues ==
    (0..SmallMax) \cup ((RefN - SmallMax)..(RefN + SmallMax))
        \cup ((RefP - SmallMax)..(RefP + SmallMax))
        \cup {Pow2(WordBits * HalfWords) - i : i \in 1..SmallMax}
        \cup Boundaries

\* buffers of the right length, one byte short, one byte long, and empty
Buffers ==
    {RefBytes(v) : v \in SecretValues}
        \cup {SubSeq(RefBytes(v), 2, BufLen) : v \in {1, RefN - 1}}
        \cup {RefBytes(v) \o <<0>> : v \in {1, RefN - 1}}
        \cup {<<0>> \o RefBytes(v) : v \in {1, RefN - 1}}
        \cup {RefBytes(v) : v \in TableCoords}
        \cup {<<>>}

NafValues ==
    (1..NafMax) \cup Boundaries \cup TableCoords
        \cup {RefN - i : i \in 1..SmallMax}
        \cup {Pow2(WordBits * HalfWords) - i : i \in 1..SmallMax}
        \cup {3 * Pow2(WordBits * HalfWords - 2) + v : v \in 1..NafMax}

MulValues == (1..MulMax) \cup {RefN - i : i \in 1..MulMax}

\* magnitudes of signed operands: small, at the word boundaries, full length
SignedValues ==
    (0..SmallMax) \cup Boundaries \cup {RefP - 1, RefP, Pow2(WordBits * HalfWords) - 1}

Negated(x) == [x EXCEPT !.negative = TRUE]

\* normalised signed numbers: no negative zero
SignedInputs ==
    {FromValue(v) : v \in SignedValues}
        \cup {Negated(FromValue(v)) : v \in SignedValues \ {0}}

\* non-negative factors of one to HalfWords + 1 words
MulInputs ==
    {FromValue(v) : v \in SignedValues} \cup {AllOnes(l) : l \in 1..(HalfWords + 1)}

\* how many multiples of G, and as many of their negations, are handed in
PointMax == 4

\* a point of the reference as the program holds it
ToECPoint(ref) ==
    IF ref.inf THEN INF ELSE ECPoint_new(FromValue(ref.x), FromValue(ref.y))

\* k * G and -k * G for the small k
CurveRefs ==
    {RefMul(k, RefG) : k \in (1..PointMax) \cup {RefN - i : i \in 1..PointMax}}

CurvePoints == {ToECPoint(ref) : ref \in CurveRefs}

\* the third coordinates a point is spelled with
ZValues == {1, 2, Base + 1, RefP - 1}

\* the Jacobian spelling (x z^2, y z^3, z) of a finite point of the reference
ToECJPoint(ref, z) ==
    LET z2 == MulMod(z, z, RefP)
    IN  ECJPoint_new(FromValue(MulMod(ref.x, z2, RefP)),
                     FromValue(MulMod(ref.y, MulMod(z2, z, RefP), RefP)),
                     FromValue(z))

JacobianPoints ==
    {ToECJPoint(ref, z) : ref \in CurveRefs, z \in ZValues} \cup {ECJPoint_default}

\* coordinates in [0, p) for which the sum's X comes out as a multiple of p:
\* J = ((p + 3) / 2, 3, 1) and P = ((p + 1) / 2, 1)
EdgeJ == ECJPoint_new(FromValue((RefP + 3) \div 2), FromValue(3), ONE)

EdgeP == ECPoint_new(FromValue((RefP + 1) \div 2), ONE)

\* ----------------------------------------------------- the state machine

VARIABLES
    op,      \* the operation applied last
    g,       \* the generator table, ECPointG
    a, b,    \* operands: field elements, a wide number, or a scalar
    w,       \* the window of get_naf
    buf,     \* bytes handed in by the caller
    p1, p2,  \* affine points handed in
    ja, jb,  \* Jacobian points handed in
    r,       \* the number an operation returned
    out,     \* the bytes an operation wrote
    valid,   \* what is_valid_secret answered
    digits,  \* the digits get_naf returned
    pt,      \* the affine point an operation returned
    jr,      \* the Jacobian point an operation returned
    inv      \* the locals of red_invm's loop: a (self), b, x1, x2

vars ==
    <<op, g, a, b, w, buf, p1, p2, ja, jb, r, out, valid, digits, pt, jr, inv>>

inputs == <<g, a, b, w, buf, p1, p2, ja, jb>>

\* no table yet
NoTable == [ecpoint |-> INF, points |-> <<>>, negpoints |-> <<>>]

\* nothing has run yet
Fresh ==
    /\ op = "init"
    /\ g = NoTable
    /\ r = ZERO
    /\ out = <<>>
    /\ valid = FALSE
    /\ digits = <<>>
    /\ pt = INF
    /\ jr = ECJPoint_default
    /\ inv = [a |-> ZERO, b |-> ZERO, x1 |-> ZERO, x2 |-> ZERO]

\* no points are handed in
NoPoints ==
    /\ p1 = INF
    /\ p2 = INF
    /\ ja = ECJPoint_default
    /\ jb = ECJPoint_default

\* --- field arithmetic on reduced operands

InitField ==
    /\ Fresh
    /\ a \in FieldInputs
    /\ b \in FieldInputs
    /\ w = 1
    /\ buf = <<>>
    /\ NoPoints

results == <<out, valid, digits, pt, jr, inv>>

RedAdd ==
    /\ op = "init"
    /\ op' = "red_add"
    /\ r' = red_add(a, b)
    /\ UNCHANGED <<inputs, results>>

RedAddNeg ==
    /\ op = "init"
    /\ op' = "red_add_neg"
    /\ r' = red_add(a, red_neg(b))
    /\ UNCHANGED <<inputs, results>>

RedSub ==
    /\ op = "init"
    /\ op' = "red_sub"
    /\ r' = red_sub(a, b)
    /\ UNCHANGED <<inputs, results>>

RedSubTwice ==
    /\ op = "init"
    /\ op' = "red_sub_twice"
    /\ r' = red_sub_twice(a, b)
    /\ UNCHANGED <<inputs, results>>

RedNeg ==
    /\ op = "init"
    /\ op' = "red_neg"
    /\ r' = red_neg(a)
    /\ UNCHANGED <<inputs, results>>

RedMul ==
    /\ op = "init"
    /\ op' = "red_mul"
    /\ r' = red_mul(a, b)
    /\ UNCHANGED <<inputs, results>>

RedInvm ==
    /\ op = "init"
    /\ ~EqU32(a, 0)
    /\ op' = "red_invm"
    /\ r' = red_invm(a)
    /\ UNCHANGED <<inputs, results>>

ToPublicKey ==
    /\ op = "init"
    /\ op' = "to_public_key"
    /\ out' = to_public_key(ECPoint_new(a, b))
    /\ UNCHANGED <<inputs, r, valid, digits, pt, jr, inv>>

\* res.write_bytes_to(&mut buf) on the number a field operation returned
WriteBytes ==
    /\ op \in {"red_add", "red_add_neg", "red_sub", "red_neg", "red_mul"}
    /\ op' = "write_bytes_to"
    /\ out' = write_bytes_to(r, [i \in 1..BufLen |-> 0])
    /\ UNCHANGED <<inputs, r, valid, digits, pt, jr, inv>>

NextField ==
    \/ RedAdd
    \/ RedAddNeg
    \/ RedSub
    \/ RedSubTwice
    \/ RedNeg
    \/ RedMul
    \/ RedInvm
    \/ ToPublicKey
    \/ WriteBytes

SpecField == InitField /\ [][NextField]_vars

\* --- the loop of red_invm, pass by pass

InitInvm ==
    /\ Fresh
    /\ a \in FieldInputs
    /\ b = ZERO
    /\ w = 1
    /\ buf = <<>>
    /\ NoPoints

\* red_invm up to its loop: b = *P, x1 = ONE, x2 = ZERO
InvmEnter ==
    /\ op = "init"
    /\ op' = "invm_loop"
    /\ inv' = [a |-> a, b |-> P, x1 |-> ONE, x2 |-> ZERO]
    /\ UNCHANGED <<inputs, r, out, valid, digits, pt, jr>>

\* one pass of `while self > 1 && b > 1`
InvmPass ==
    /\ op = "invm_loop"
    /\ CmpU32(inv.a, 1) > 0 /\ CmpU32(inv.b, 1) > 0
    /\ inv' = InvmStep(inv)
    /\ UNCHANGED <<op, inputs, r, out, valid, digits, pt, jr>>

\* the loop is left; the rest of red_invm
InvmLeave ==
    /\ op = "invm_loop"
    /\ ~(CmpU32(inv.a, 1) > 0 /\ CmpU32(inv.b, 1) > 0)
    /\ op' = "red_invm"
    /\ r' = InvmFinish(inv)
    /\ UNCHANGED <<inputs, out, valid, digits, pt, jr, inv>>

NextInvm ==
    \/ InvmEnter
    \/ InvmPass
    \/ InvmLeave

\* the function runs on until it has returned: weak fairness of NextInvm,
\* whose steps are possible exactly while op is not "red_invm"
SpecInvm ==
    /\ InitInvm
    /\ [][NextInvm]_vars
    /\ ([]<>(op = "red_invm") \/ []<><<NextInvm>>_vars)

\* --- reduction of wide numbers

InitReduce ==
    /\ Fresh
    /\ a \in WideInputs
    /\ b = ZERO
    /\ w = 1
    /\ buf = <<>>
    /\ NoPoints

RedReduce ==
    /\ op = "init"
    /\ op' = "red_reduce"
    /\ r' = red_reduce(a)
    /\ UNCHANGED <<inputs, results>>

\* a reduced number goes through red_reduce again, as red_invm's result does
ReduceAgain ==
    /\ op = "red_reduce"
    /\ op' = "red_reduce_again"
    /\ r' = red_reduce(r)
    /\ UNCHANGED <<inputs, results>>

NextReduce ==
    \/ RedReduce
    \/ ReduceAgain

SpecReduce == InitReduce /\ [][NextReduce]_vars

\* --- bytes in, bytes out

InitBytes ==
    /\ Fresh
    /\ buf \in Buffers
    /\ a = ZERO
    /\ b = ZERO
    /\ w = 1
    /\ NoPoints

IsValidSecret ==
    /\ op = "init"
    /\ op' = "is_valid_secret"
    /\ valid' = is_valid_secret(buf)
    /\ UNCHANGED <<inputs, r, out, digits, pt, jr, inv>>

\* BigNum::from(&buf[..]) and then write_bytes_to a zeroed buffer
RoundTrip ==
    /\ op = "init"
    /\ Len(buf) = BufLen
    /\ op' = "round_trip"
    /\ r' = FromBytes(buf)
    /\ out' = write_bytes_to(r', [i \in 1..BufLen |-> 0])
    /\ UNCHANGED <<inputs, valid, digits, pt, jr, inv>>

NextBytes ==
    \/ IsValidSecret
    \/ RoundTrip

SpecBytes == InitBytes /\ [][NextBytes]_vars

\* --- recoding of scalars

InitNaf ==
    /\ Fresh
    /\ a \in {FromValue(v) : v \in NafValues}
    /\ b = ZERO
    /\ w \in 1..MaxW
    /\ buf = <<>>
    /\ NoPoints

GetNaf ==
    /\ op = "init"
    /\ op' = "get_naf"
    /\ digits' = NAF_as_slice(get_naf(a, w))
    /\ UNCHANGED <<inputs, r, out, valid, pt, jr, inv>>

GetNaf1 ==
    /\ op = "init"
    /\ op' = "get_naf1"
    /\ digits' = NAFRepr_as_slice(get_naf1(a))
    /\ UNCHANGED <<inputs, r, out, valid, pt, jr, inv>>

NextNaf ==
    \/ GetNaf
    \/ GetNaf1

SpecNaf == InitNaf /\ [][NextNaf]_vars

\* --- signed numbers

InitBigNum ==
    /\ Fresh
    /\ a \in SignedInputs \cup MulInputs
    /\ b \in SignedInputs \cup MulInputs
    /\ w = 1
    /\ buf = <<>>
    /\ NoPoints

\* a + b
Add ==
    /\ op = "init"
    /\ a \in SignedInputs /\ b \in SignedInputs
    /\ op' = "add"
    /\ r' = add_assign(a, b)
    /\ UNCHANGED <<inputs, results>>

\* a - b
Sub ==
    /\ op = "init"
    /\ a \in SignedInputs /\ b \in SignedInputs
    /\ op' = "sub"
    /\ r' = sub_assign(a, b)
    /\ UNCHANGED <<inputs, results>>

\* the result of a + b or a - b goes on: r + a, r - b
AddAgain ==
    /\ op \in {"add", "sub"}
    /\ op' = "add_again"
    /\ r' = add_assign(r, a)
    /\ UNCHANGED <<inputs, results>>

SubAgain ==
    /\ op \in {"add", "sub"}
    /\ op' = "sub_again"
    /\ r' = sub_assign(r, b)
    /\ UNCHANGED <<inputs, results>>

\* a * b, for non-negative a and b that fit the storage
MulWide ==
    /\ op = "init"
    /\ a \in MulInputs /\ b \in MulInputs
    /\ a.len + b.len <= NumWords
    /\ op' = "mul_assign"
    /\ r' = mul_assign(a, b)
    /\ UNCHANGED <<inputs, results>>

NextBigNum ==
    \/ Add
    \/ Sub
    \/ AddAgain
    \/ SubAgain
    \/ MulWide

SpecBigNum == InitBigNum /\ [][NextBigNum]_vars

\* --- affine points

InitPoint ==
    /\ Fresh
    /\ a = ZERO
    /\ b = ZERO
    /\ w = 1
    /\ buf = <<>>
    /\ p1 \in CurvePoints \cup {INF}
    /\ p2 \in CurvePoints \cup {INF}
    /\ ja = ECJPoint_default
    /\ jb = ECJPoint_default

\* p1 += &p2
EcAdd ==
    /\ op = "init"
    /\ op' = "ec_add"
    /\ pt' = ECPoint_add(p1, p2)
    /\ UNCHANGED <<inputs, r, out, valid, digits, jr, inv>>

\* p1.double()
EcDouble ==
    /\ op = "init"
    /\ op' = "ec_double"
    /\ pt' = ECPoint_double(p1)
    /\ UNCHANGED <<inputs, r, out, valid, digits, jr, inv>>

NextPoint ==
    \/ EcAdd
    \/ EcDouble

SpecPoint == InitPoint /\ [][NextPoint]_vars

\* --- Jacobian points

InitJacobian ==
    /\ Fresh
    /\ a = ZERO
    /\ b = ZERO
    /\ w = 1
    /\ buf = <<>>
    /\ p1 = INF
    /\ p2 \in CurvePoints \cup {INF, EdgeP}
    /\ ja \in JacobianPoints \cup {EdgeJ}
    /\ jb = ECJPoint_default

\* ja.mixed_add(&p2)
MixedAdd ==
    /\ op = "init"
    /\ op' = "mixed_add"
    /\ jr' = mixed_add(ja, p2)
    /\ UNCHANGED <<inputs, r, out, valid, digits, pt, inv>>

\* ja += &ECJPoint::from(p2)
JacobianAdd ==
    /\ op = "init"
    /\ op' = "ecj_add"
    /\ jr' = ECJPoint_add(ja, ECJPoint_from(p2))
    /\ UNCHANGED <<inputs, r, out, valid, digits, pt, inv>>

NextJacobian ==
    \/ MixedAdd
    \/ JacobianAdd

SpecJacobian == InitJacobian /\ [][NextJacobian]_vars

\* --- the group law on Jacobian points

InitGroup ==
    /\ Fresh
    /\ a = ZERO
    /\ b = ZERO
    /\ w = 1
    /\ buf = <<>>
    /\ p1 = INF
    /\ p2 = INF
    /\ ja \in JacobianPoints
    /\ jb \in JacobianPoints

\* ja += &jb, then ECPoint::from
AddJ ==
    /\ op = "init"
    /\ op' = "add_j"
    /\ jr' = ECJPoint_add(ja, jb)
    /\ pt' = ECPoint_from(jr')
    /\ UNCHANGED <<inputs, r, out, valid, digits, inv>>

\* ja.double(), then ECPoint::from
DoubleJ ==
    /\ op = "init"
    /\ op' = "double_j"
    /\ jr' = ECJPoint_double(ja)
    /\ pt' = ECPoint_from(jr')
    /\ UNCHANGED <<inputs, r, out, valid, digits, inv>>

NextGroup ==
    \/ AddJ
    \/ DoubleJ

SpecGroup == InitGroup /\ [][NextGroup]_vars

\* --- multiplication of the generator

Init ==
    /\ Fresh
    /\ a \in {FromValue(v) : v \in MulValues}
    /\ b = ZERO
    /\ w = 1
    /\ buf = <<>>
    /\ NoPoints

New ==
    /\ op = "init"
    /\ op' = "new"
    /\ g' = ECPointG_new
    /\ UNCHANGED <<a, b, w, buf, p1, p2, ja, jb, r, results>>

Mul ==
    /\ op = "new"
    /\ op' = "mul"
    /\ pt' = ECPointG_mul(g, a)
    /\ UNCHANGED <<inputs, r, out, valid, digits, jr, inv>>

Next ==
    \/ New
    \/ Mul

Spec == Init /\ [][Next]_vars


\* ------------------------------------------------------------ properties

\* C1: for every scalar k with 0 < k < n, mul(k) on the table of new is the
\* affine point k * G, not at infinity.
C1_MulIsKTimesG ==
    op = "mul" => HoldsPoint(pt, RefMul(Magnitude(a), RefG))

\* C2: is_valid_secret answers true exactly when the buffer has BufLen bytes
\* and its big-endian value s has 0 < s < n.
C2_ValidSecret ==
    op = "is_valid_secret" =>
        (valid <=> (Len(buf) = BufLen /\ BufValue(buf) > 0 /\ BufValue(buf) < RefN))

\* the order itself, of the right length, is turned down
C2_Witness ==
    op = "is_valid_secret" /\ Len(buf) = BufLen /\ BufValue(buf) = RefN /\ ~valid

C4_InverseTimesSelf ==
    op = "red_invm" =>
        /\ ~r.negative
        /\ cmp(r, P) < 0
        /\ BigNumEq(red_mul(a, r), ONE)

\* C5: for every non-negative x, x = p included, red_reduce(x) leaves a
\* value strictly below p.
C5_ReducedBelowP ==
    op = "red_reduce" =>
        /\ ~r.negative
        /\ r.len <= HalfWords
        /\ Magnitude(r) < RefP

\* C6: a buffer of BufLen bytes read by From<&[u8]> and written back by
\* write_bytes_to comes out byte for byte.
C6_RoundTrip ==
    op = "round_trip" => out = buf

\* a buffer with a leading zero byte that is not all zero
C6_Witness ==
    op = "round_trip" /\ buf[1] = 0 /\ BufValue(buf) > 0 /\ Len(out) = BufLen

\* C7: after new, points[i] is 16^i * G and negpoints[i] is its negation,
\* for every index of the table.
C7_TableEntries ==
    op = "new" =>
    \A i \in 0..(NumPoints - 1) :
        /\ HoldsPoint(g.points[i], RefMul(Pow2(4 * i), RefG))
        /\ HoldsPoint(g.negpoints[i], RefNeg(RefMul(Pow2(4 * i), RefG)))

\* the table is in place: its last entry is a finite point other than G
C7_Witness ==
    /\ op = "new"
    /\ ~g.points[NumPoints - 1].inf
    /\ ~BigNumEq(g.points[NumPoints - 1].x, g.points[0].x)
    /\ BigNumEq(g.negpoints[NumPoints - 1].x, g.points[NumPoints - 1].x)

\* C8: for every non-zero k and every window w in 1..MaxW, the digits of
\* get_naf(w) sum to k: the sum of d_i * 2^i is k.
C8_NafValue ==
    op = "get_naf" => NafValue(digits) = Magnitude(a)

\* the widest window, with a negative digit
C8_Witness ==
    op = "get_naf" /\ w = MaxW /\ \E i \in 1..Len(digits) : digits[i] < 0

\* C9: the digits of get_naf(1) are -1, 0 or 1 and no two neighbours are
\* both non-zero.
C9_NafAdjacency ==
    (op = "get_naf" /\ w = 1) =>
        \A i \in 1..Len(digits) :
            /\ digits[i] \in {-1, 0, 1}
            /\ i < Len(digits) => (digits[i] = 0 \/ digits[i + 1] = 0)

\* width 1, with both signs among the digits
C9_Witness ==
    /\ op = "get_naf" /\ w = 1
    /\ \E i \in 1..Len(digits) : digits[i] = -1
    /\ \E i \in 1..Len(digits) : digits[i] = 1

\* C10: for a, b in [0, p), red_sub(a, b) and red_add(a, red_neg(b)) are the
\* same BigNum, sign and significant words.
C10_SubIsAddNeg ==
    op = "red_sub" => BigNumEq(r, red_add(a, red_neg(b)))

\* a = b, not zero: both sides are the zero
C10_Witness ==
    op = "red_sub" /\ BigNumEq(a, b) /\ ~EqU32(a, 0) /\ EqU32(r, 0)

\* C11: for an affine point P of the curve, P + inf and inf + P are P,
\* P + neg(P) is at infinity, and P + P is P.double().
C11_AffineLaws ==
    op = "ec_add" =>
        /\ p2.inf => pt = p1
        /\ p1.inf => pt = p2
        /\ p2 = ECPoint_neg(p1) => pt.inf
        /\ p2 = p1 => pt = ECPoint_double(p1)

\* a finite point and its negation, which is another point, were added
C11_Witness ==
    /\ op = "ec_add"
    /\ ~p1.inf
    /\ p2 = ECPoint_neg(p1) /\ p2 # p1
    /\ pt.inf

\* the same X, Y and Z, as BigNum values
SameJacobian(j, q) ==
    BigNumEq(j.x, q.x) /\ BigNumEq(j.y, q.y) /\ BigNumEq(j.z, q.z)

\* C12: for every Jacobian J and affine P with coordinates in [0, p),
\* J.mixed_add(P) leaves the same (X, Y, Z) as J + ECJPoint::from(P).
C12_MixedIsAdd ==
    op = "mixed_add" => SameJacobian(jr, ECJPoint_add(ja, ECJPoint_from(p2)))

\* the same statement for the points of the curve only
C12_OnCurve ==
    (op = "mixed_add" /\ ja # EdgeJ /\ p2 # EdgeP) =>
        SameJacobian(jr, ECJPoint_add(ja, ECJPoint_from(p2)))

\* C13: for signed a and b of every combination of signs and magnitudes,
\* a - b has the value of the integer difference, with its sign.
C13_SignedDifference ==
    op = "sub" => SignedValue(r) = SignedValue(a) - SignedValue(b)

\* C14: after additions and subtractions that start from normalised values,
\* a result of magnitude zero has len = 1, words[0] = 0 and negative = false.
C14_ZeroIsCanonical ==
    (op \in {"add", "sub", "add_again", "sub_again"}
        /\ \A i \in 0..(NumWords - 1) : WordAt(r, i) = 0) =>
        (r.len = 1 /\ r.words[0] = 0 /\ ~r.negative /\ BigNumEq(r, ZERO))

\* C15: for non-negative normalised a and b with len_a + len_b within the
\* storage, a * b has the value of the integer product, on every path.
C15_ExactProduct ==
    op = "mul_assign" =>
        /\ ~r.negative
        /\ \A i \in 0..(NumWords - 1) : WordAt(r, i) = RefProduct(a, b)[i + 1]

\* C16: for every non-negative x of up to NumWords words, red_reduce(x)
\* leaves a value congruent to x modulo p.
C16_ReduceCongruent ==
    op = "red_reduce" => (~r.negative /\ ModP(r) = ModP(a))

\* a number of full width was folded twice and came out in HalfWords words
C16_Witness ==
    /\ op = "red_reduce"
    /\ a.len = NumWords
    /\ Fold(a).len > HalfWords
    /\ r.len <= HalfWords
    /\ ModP(a) # 0

\* C17: for a, b in [0, p), red_sub_twice(a, b) is not negative, below p and
\* congruent to a - 2b modulo p, also when a - 2b is -p or below -p.
C17_SubTwiceReduced ==
    op = "red_sub_twice" =>
        /\ ~r.negative
        /\ cmp(r, P) < 0
        /\ ModP(r) = (SignedValue(a) - 2 * SignedValue(b)) % RefP

\* the number a packed recoding stands for: sum of repr[j] * 16^j
RECURSIVE ReprValueFrom(_, _)
ReprValueFrom(repr, i) ==
    IF i > Len(repr) THEN 0 ELSE repr[i] + 16 * ReprValueFrom(repr, i + 1)

ReprValue(repr) == ReprValueFrom(repr, 1)

\* C18: for every scalar k, the entries of get_naf1(k).as_slice() sum, with
\* weights 16^j, to k; also when a digit -1 is followed by a non-zero digit
\* in the same entry (k = 3).
C18_PackedValue ==
    op = "get_naf1" => ReprValue(digits) = Magnitude(a)

\* C20: for every scalar k > 0 of HalfWords words, get_naf1(k).as_slice() has
\* at most NumPoints entries (the length of points and negpoints) and every
\* entry lies in [-10, 10], the magnitudes ECPointG::mul scans.
C20_EntriesInRange ==
    (op = "get_naf1" /\ ~EqU32(a, 0)) =>
        /\ Len(digits) <= NumPoints
        /\ \A j \in 1..Len(digits) : digits[j] \in -10..10

\* a scalar of full width: every table entry is indexed, and one entry has the
\* largest magnitude
C20_Witness ==
    /\ op = "get_naf1"
    /\ Len(digits) = NumPoints
    /\ \E j \in 1..Len(digits) : digits[j] = 10
    /\ \E j \in 1..Len(digits) : digits[j] < 0

\* repr[j] times the table's point j, 16^j * G, on the reference curve
RefEntry(val, j) ==
    IF val = 0 THEN RefInf
    ELSE Let([tp \in {RefMul(Pow2(4 * j), RefG)} |->
         IF val > 0 THEN RefMul(val, tp) ELSE RefNeg(RefMul(-val, tp))])

\* the sum over j of repr[j] * points[j]
RECURSIVE RefEntrySumFrom(_, _)
RefEntrySumFrom(repr, j) ==
    IF j > Len(repr) THEN RefInf
    ELSE Let([rest \in {RefEntrySumFrom(repr, j + 1)} |->
         RefAdd(RefEntry(repr[j], j - 1), rest)])

RefEntrySum(repr) == RefEntrySumFrom(repr, 1)

\* C19: for the entries repr that get_naf1 gives for the scalar, mul returns
\* the affine form of the sum over j of repr[j] * points[j].
C19_MulIsEntrySum ==
    op = "mul" =>
        HoldsPoint(pt, RefEntrySum(NAFRepr_as_slice(get_naf1(a))))

\* two affine points of the program are the same point
SamePoint(q1, q2) ==
    /\ q1.inf = q2.inf
    /\ ~q1.inf => (BigNumEq(q1.x, q2.x) /\ BigNumEq(q1.y, q2.y))

\* C21: for Jacobian J1, J2 that stand for points of the curve, the affine
\* form of J1 + J2 is the affine sum of the affine forms of J1 and J2.
C21_JacobianSum ==
    op = "add_j" =>
        SamePoint(pt, ECPoint_add(ECPoint_from(ja), ECPoint_from(jb)))

\* C22: for a Jacobian J that stands for a point of the curve, the affine form
\* of J.double() is the affine double of the affine form of J, on the branch
\* Z = 1 and on the general branch.
C22_DoubleAgrees ==
    op = "double_j" => SamePoint(pt, ECPoint_double(ECPoint_from(ja)))

\* C23: an affine addition or doubling that ends at infinity leaves
\* (x, y, inf) = (0, 0, true).
C23_CanonicalInfinity ==
    (op \in {"ec_add", "ec_double"} /\ pt.inf) => pt = INF

\* C24: the bytes write_bytes_to emits for the result of a field operation on
\* operands in [0, p) are the big-endian spelling of the result's value.
C24_BytesOfResult ==
    op = "write_bytes_to" => out = RefBytes(Magnitude(r))

\* the sum a + b of the loop's pair
PairSum(s) == Magnitude(s.a) + Magnitude(s.b)

\* C25: for every a in [0, p), a = 0 and a = 1 too, the loop of red_invm ends:
\* a and b are never negative, a + b is smaller after every pass, and the
\* loop is left with a <= 1 or b <= 1.
C25_LoopEnds ==
    /\ [](op = "invm_loop" =>
            /\ ~inv.a.negative /\ ~inv.b.negative
            /\ (CmpU32(inv.a, 1) > 0 /\ CmpU32(inv.b, 1) > 0) =>
                    PairSum(InvmStep(inv)) < PairSum(inv))
    /\ [](op = "red_invm" => (CmpU32(inv.a, 1) <= 0 \/ CmpU32(inv.b, 1) <= 0))
    /\ <>(op = "red_invm")

\* the loop ran and was left because b came down to 1
C25_Witness ==
    /\ op = "red_invm"
    /\ CmpU32(a, 1) > 0
    /\ inv.b # P
    /\ EqU32(inv.b, 1)

=============================================================================
